---- MODULE Spec2Model ----
(***************************************************************************)
(* The BLS-to-execution-change deriver of the cannon                       *)
(* (pkg/cannon/deriver/beacon/eth/v2/bls_to_execution_change.go): its      *)
(* lifecycle (Start, Stop), its callback registries, and the run loop that *)
(* walks the checkpoint iterator under the exponential backoff controller. *)
(***************************************************************************)
EXTENDS Integers, Sequences, FiniteSets, TLC

(* ------------------------------ bounds -------------------------------- *)

\* Slots the iterator can hand out: 1..MaxSlot.
MaxSlot == 2
\* Longest list of registered callbacks of either kind.
MaxCallbacks == 2
\* Most events the derivers that share one metadata template assemble.
MaxAssembled == 3
\* Most runs of the extractor on one block.
MaxExtractions == 2
\* Most attempts in a row, since the controller was reset, that a collaborator
\* (beacon node, iterator, metadata clone) makes fail.
MaxFailures == 2

(* ------------------------- program constants -------------------------- *)

\* spec.DataVersion tags the extractor switches on.
DataVersionPhase0 == 0
DataVersionAltair == 1
DataVersionBellatrix == 2
DataVersionCapella == 3
\* A tag newer than Capella: it reaches the default branch of the switch.
DataVersionDeneb == 4

DataVersions ==
  {DataVersionPhase0, DataVersionAltair, DataVersionBellatrix,
   DataVersionCapella, DataVersionDeneb}

\* backoff.NewExponentialBackOff(): the defaults, in milliseconds.
InitialInterval == 500
\* bo.MaxInterval = 1 * time.Minute, in milliseconds.
MaxInterval == 60000

\* The validators whose change a block body can carry.
ValidatorIndices == {3, 9}

Slots == 1 .. MaxSlot

(* ------------------------------- state -------------------------------- *)

VARIABLES
  cfgEnabled,           \* cfg.Enabled
  onEventCallbacks,     \* b.onEventCallbacks: the registered functions, in order
  onLocationCallbacks,  \* b.onLocationCallbacks
  cancelled,            \* ctx.Done() is closed
  pc,                   \* position of the deriver: idle, disabled, the run loop's steps, stopped
  checkpoint,           \* the slot the iterator has durably committed
  chain,                \* the beacon chain: the block (or none) at each uncommitted slot fetched so far
  fetched,              \* the uncommitted slots whose block the beacon node has served
  location,             \* the slot of the Location Next returned in this attempt
  block,                \* the block fetched in this attempt
  blockIdentifier,      \* the identifier derived in this attempt
  changes,              \* the changes extracted in this attempt
  events,               \* the events assembled in this attempt
  evIdx,                \* the send loop's position in events
  idx,                  \* a callback loop's position in its callback list
  currentInterval,      \* bo.currentInterval
  lastDelay,            \* the delay level last slept since the controller was reset (0: none)
  lastErr,              \* what the attempt that just finished returned
  trace,                \* the collaborator and callback calls of the current attempt, in order
  failures,             \* failed attempts in a row since the controller was reset (counted to MaxFailures)
  cbErr,                \* which callback kinds returned an error in the current attempt
  returnedAfterCancel,  \* an attempt has returned after ctx was cancelled
  recovered,            \* the failed attempts the last successful attempt came after, until a second attempt fails after it (else 0)
  offered,              \* the deliveries of the uncommitted Location: made once, made again; the slot if its commit has failed, else 0
  startReturned,        \* what the calls of Start have returned ("none": not called)
  stopReturned,         \* what the calls of Stop have returned ("none": not called)
  stopCalledAt,         \* the checkpoint when Stop was last called (-1: not called)
  pc2,                  \* a second call of Start: not made, returned without a goroutine, or the position of the run goroutine it spawned
  location2,            \* the slot Next returned to that goroutine in its attempt
  metaHeap,             \* the ClientMeta objects in memory, by address; the template is the first
  assembling,           \* per deriver sharing the template: where its createEvent call is, the identifier passed, the address of its metadata
  assembled,            \* the events createEvent has returned: the deriver, the identifier passed, the address held in Meta.Client
  extractions           \* the runs of the extractor on the block: the deriver's location and failure count at the run, and the result

(* ------------------------------ helpers ------------------------------- *)

RECURSIVE Arrangements(_)
\* All sequences of distinct elements of S.
Arrangements(S) ==
  {<<>>} \cup UNION {{<<x>> \o s : s \in Arrangements(S \ {x})} : x \in S}

\* A signed BLS-to-execution change as the consensus block body carries it.
RawChange(v) == [ValidatorIndex |-> v]

\* The block bodies a Capella block can carry: a valid block changes the
\* credentials of a validator at most once.
Bodies == Arrangements({RawChange(v) : v \in ValidatorIndices})

\* spec.VersionedSignedBeaconBlock: only a Capella block has a Capella body.
Blocks ==
  {[found |-> TRUE, Version |-> v, Body |-> <<>>] : v \in DataVersions \ {DataVersionCapella}}
    \cup {[found |-> TRUE, Version |-> DataVersionCapella, Body |-> b] : b \in Bodies}

\* GetBeaconBlock's (nil, nil): no block at the slot.
NilBlock == [found |-> FALSE, Version |-> DataVersionPhase0, Body |-> <<>>]

\* xatu.BlockIdentifier of a block fetched at a slot.
NoIdentifier == [Slot |-> 0, Version |-> DataVersionPhase0]

\* The process-wide ClientMeta template.
clientMeta == [Name |-> "cannon", AdditionalData |-> NoIdentifier]

\* xatuethv2.SignedBLSToExecutionChangeV2 built from one change of the body.
SignedBLSToExecutionChangeV2(change) ==
  [Message |-> [ValidatorIndex |-> change.ValidatorIndex]]

\* The extractor with an unknown version skipped: no changes and no error.
getBLSToExecutionChangesSkipsUnknown(b) ==
  IF b.Version = DataVersionCapella
  THEN [changes |-> [k \in 1 .. Len(b.Body) |-> SignedBLSToExecutionChangeV2(b.Body[k])],
        err |-> FALSE]
  ELSE [changes |-> <<>>, err |-> FALSE]

\* The extractor with the changes of a Capella body in reverse order.
getBLSToExecutionChangesReversed(b) ==
  CASE b.Version \in {DataVersionPhase0, DataVersionAltair, DataVersionBellatrix} ->
         [changes |-> <<>>, err |-> FALSE]
    [] b.Version = DataVersionCapella ->
         [changes |-> [k \in 1 .. Len(b.Body) |->
                         SignedBLSToExecutionChangeV2(b.Body[Len(b.Body) + 1 - k])],
          err |-> FALSE]
    [] OTHER -> [changes |-> <<>>, err |-> TRUE]

\* The extractor with the changes left out in an attempt that follows a
\* failed one.
getBLSToExecutionChangesByAttempt(b) ==
  CASE b.Version \in {DataVersionPhase0, DataVersionAltair, DataVersionBellatrix} ->
         [changes |-> <<>>, err |-> FALSE]
    [] b.Version = DataVersionCapella ->
         [changes |-> IF failures > 0 THEN <<>>
                      ELSE [k \in 1 .. Len(b.Body) |-> SignedBLSToExecutionChangeV2(b.Body[k])],
          err |-> FALSE]
    [] OTHER -> [changes |-> <<>>, err |-> TRUE]

\* getBLSToExecutionChanges: the changes of a block by fork version, or an
\* unsupported-version error.
getBLSToExecutionChanges(b) ==
  CASE b.Version = DataVersionPhase0 -> [changes |-> <<>>, err |-> FALSE]
    [] b.Version = DataVersionAltair -> [changes |-> <<>>, err |-> FALSE]
    [] b.Version = DataVersionBellatrix -> [changes |-> <<>>, err |-> FALSE]
    [] b.Version = DataVersionCapella ->
         [changes |-> [k \in 1 .. Len(b.Body) |-> SignedBLSToExecutionChangeV2(b.Body[k])],
          err |-> FALSE]
    [] OTHER -> [changes |-> <<>>, err |-> TRUE]

\* GetBlockIdentifier: the identifier attached to every event of a block.
GetBlockIdentifier(b, slot) == [Slot |-> slot, Version |-> b.Version]

\* An identifier generator that hands out one value again and again.
uuidNewRepeats(made) == 1

\* uuid.New(): a value the generator has not handed out before; made is the
\* number of identifiers generated so far in the attempt, and the value is
\* named by its rank among them.
uuidNew(made) == made + 1

\* createEvent: the decorated event of one change, with the identifier id
\* that uuid.New() generated; the metadata is a clone of the template with
\* the block identifier as additional data.
createEvent(change, identifier, id) ==
  [Id |-> id,
   Data |-> change,
   Meta |-> [Client |-> [clientMeta EXCEPT !.AdditionalData = identifier]]]

\* ExponentialBackOff.incrementCurrentInterval, multiplier 1.5.
incrementCurrentInterval(cur) ==
  IF cur * 3 >= MaxInterval * 2 THEN MaxInterval ELSE (cur * 3) \div 2

run == <<location, block, blockIdentifier, changes, events, evIdx, idx>>

vars ==
  <<cfgEnabled, onEventCallbacks, onLocationCallbacks, cancelled, pc, checkpoint,
    chain, fetched, location, block, blockIdentifier, changes, events, evIdx, idx,
    currentInterval, lastDelay, lastErr, trace, failures, cbErr, returnedAfterCancel,
    recovered, offered, startReturned, stopReturned, stopCalledAt, pc2, location2,
    metaHeap, assembling, assembled, extractions>>

\* The memory of the metadata objects and the createEvent calls on it.
assembly == <<metaHeap, assembling, assembled>>

\* What only the callers of Stop and of a second Start, and the createEvent
\* calls followed through memory, change.
aux == <<stopReturned, stopCalledAt, pc2, location2, assembly, extractions>>

\* The derivers that share the process-wide template.
Derivers == {1, 2}

\* The address of the template b.clientMeta.
TemplateAddr == 1

\* Where a deriver is outside createEvent.
NotAssembling == [pc |-> "idle", identifier |-> NoIdentifier, metadata |-> 0]

\* One entry of trace: the call, the callback function called, the slot
\* passed, the position in events of the event passed or built, and whether
\* the call returned an error (a callback's error is kept in cbErr instead).
Call(name, fn, slot, k, err) ==
  [call |-> name, fn |-> fn, slot |-> slot, k |-> k, err |-> err]

\* ExponentialBackOff.Reset with the interval left as it is.
ResetKeepsInterval == currentInterval

\* ExponentialBackOff.Reset: the interval after a reset of the controller.
Reset == InitialInterval

NoOffers == [once |-> {}, twice |-> {}, failedCommit |-> 0]

\* The deriver as NewBLSToExecutionChangeDeriver returns it, but for the
\* block the run loop works on.
Constructed ==
  /\ cfgEnabled \in BOOLEAN
  /\ onEventCallbacks = <<>>
  /\ onLocationCallbacks = <<>>
  /\ cancelled = FALSE
  /\ pc = "idle"
  /\ checkpoint = 0
  /\ chain = [s \in Slots |-> NilBlock]
  /\ fetched = {}
  /\ location = 0
  /\ blockIdentifier = NoIdentifier
  /\ changes = <<>>
  /\ events = <<>>
  /\ evIdx = 1
  /\ idx = 1
  /\ currentInterval = InitialInterval
  /\ lastDelay = 0
  /\ lastErr = "none"
  /\ trace = <<>>
  /\ failures = 0
  /\ cbErr = {}
  /\ returnedAfterCancel = FALSE
  /\ recovered = 0
  /\ offered = NoOffers
  /\ startReturned = "none"
  /\ stopReturned = "none"
  /\ stopCalledAt = -1
  /\ pc2 = "none"
  /\ location2 = 0
  /\ metaHeap = <<clientMeta>>
  /\ assembling = [d \in Derivers |-> NotAssembling]
  /\ assembled = <<>>
  /\ extractions = <<>>

Init ==
  /\ Constructed
  /\ block = NilBlock

(* ----------------------- registration, lifecycle ---------------------- *)

\* OnEventDerived: append a function to the event callbacks (before the run
\* loop starts); a function is named by the order of its registration.
OnEventDerived ==
  /\ pc = "idle"
  /\ Len(onEventCallbacks) < MaxCallbacks
  /\ onEventCallbacks' = Append(onEventCallbacks, Len(onEventCallbacks) + 1)
  /\ UNCHANGED <<cfgEnabled, onLocationCallbacks, cancelled, pc, checkpoint, chain,
                 fetched, run, currentInterval, lastDelay, lastErr, trace, cbErr,
                 returnedAfterCancel, failures, recovered,
                 offered>>
  /\ UNCHANGED <<startReturned, aux>>

\* OnLocationUpdated: append a function to the location callbacks.
OnLocationUpdated ==
  /\ pc = "idle"
  /\ Len(onLocationCallbacks) < MaxCallbacks
  /\ onLocationCallbacks' = Append(onLocationCallbacks, Len(onLocationCallbacks) + 1)
  /\ UNCHANGED <<cfgEnabled, onEventCallbacks, cancelled, pc, checkpoint, chain,
                 fetched, run, currentInterval, lastDelay, lastErr, trace, cbErr,
                 returnedAfterCancel, failures, recovered,
                 offered>>
  /\ UNCHANGED <<startReturned, aux>>

\* Start with the run goroutine spawned whatever the configuration says.
startSpawnsAlways(enabled) == TRUE

\* Start: whether the call spawns the run goroutine.
startSpawns(enabled) == enabled

\* Start: a disabled deriver does nothing; an enabled one spawns run, which
\* builds its backoff controller (NewExponentialBackOff resets it).
Start ==
  /\ pc = "idle"
  /\ pc' = IF startSpawns(cfgEnabled) THEN "select" ELSE "disabled"
  /\ startReturned' = "nil"
  /\ currentInterval' = Reset
  /\ UNCHANGED <<cfgEnabled, onEventCallbacks, onLocationCallbacks, cancelled,
                 checkpoint, chain, fetched, run, lastDelay, lastErr, trace, cbErr,
                 returnedAfterCancel, failures, recovered,
                 offered>>
  /\ UNCHANGED aux

\* Stop that ends the run loop.
StopEndsRunLoop ==
  /\ stopReturned' = "nil"
  /\ stopCalledAt' = checkpoint
  /\ pc' = IF pc \in {"idle", "disabled"} THEN pc ELSE "stopped"
  /\ UNCHANGED <<cfgEnabled, onEventCallbacks, onLocationCallbacks, cancelled,
                 checkpoint, chain, fetched, run, currentInterval, lastDelay, lastErr,
                 trace, cbErr, returnedAfterCancel, failures, recovered, offered,
                 startReturned, pc2, location2, assembly,
                 extractions>>

\* Stop: returns nil. The call leaves a mark on nothing but the record of
\* its return.
Stop ==
  /\ stopReturned' = "nil"
  /\ stopCalledAt' = checkpoint
  /\ UNCHANGED <<cfgEnabled, onEventCallbacks, onLocationCallbacks, cancelled, pc,
                 checkpoint, chain, fetched, run, currentInterval, lastDelay, lastErr,
                 trace, cbErr, returnedAfterCancel, failures, recovered, offered,
                 startReturned, pc2, location2, assembly,
                 extractions>>

\* The owner of ctx cancels it.
Cancel ==
  /\ ~cancelled
  /\ cancelled' = TRUE
  /\ UNCHANGED <<cfgEnabled, onEventCallbacks, onLocationCallbacks, pc, checkpoint,
                 chain, fetched, run, currentInterval, lastDelay, lastErr, trace,
                 cbErr, returnedAfterCancel, failures, recovered,
                 offered>>
  /\ UNCHANGED <<startReturned, aux>>

(* ------------------------------ run loop ------------------------------ *)

\* The order with the events sent before the location callbacks are called.
operationOrderEventsFirst(stage) ==
  CASE stage = "next" -> "processSlot"
    [] stage = "processSlot" -> "sendEvents"
    [] stage = "sendEvents" -> "locationCallbacks"
    [] stage = "locationCallbacks" -> "updateLocation"

\* The order with the commit moved before the sending of the events.
operationOrderCommitFirst(stage) ==
  CASE stage = "next" -> "locationCallbacks"
    [] stage = "locationCallbacks" -> "processSlot"
    [] stage = "processSlot" -> "updateLocation"
    [] stage = "sendEvents" -> "updateLocation"

\* The order of the operation's stages: what follows each.
operationOrder(stage) ==
  CASE stage = "next" -> "locationCallbacks"
    [] stage = "locationCallbacks" -> "processSlot"
    [] stage = "processSlot" -> "sendEvents"
    [] stage = "sendEvents" -> "updateLocation"

\* The error of a location callback returned.
locationCallbackAbortsOnError(err) == err

\* Whether the operation returns the error of a location callback.
locationCallbackAborts(err) == FALSE

\* The error of an event callback returned.
eventCallbackAbortsOnError(err) == err

\* Whether the operation returns the error of an event callback.
eventCallbackAborts(err) == FALSE

\* The inner loop left after the first callback.
nextSendFirstCallbackOnly(e, i) == <<e + 1, 1>>

\* The send loops: events outside, callbacks inside.
nextSend(e, i) ==
  IF i < Len(onEventCallbacks) THEN <<e, i + 1>> ELSE <<e + 1, 1>>

\* RetryNotify's error taken as the end of the run loop.
retryGivenUpEndsLoop == "stopped"

\* Where run goes when RetryNotify returns an error: the error is logged and
\* the for loop goes round again.
retryGivenUp == "select"

\* Whether RetryNotify's wait between attempts ends on ctx: the controller is
\* a plain ExponentialBackOff, so its context is context.Background().
retryObservesCtx == FALSE

\* The results a collaborator's call can have: it fails only while the bound
\* on failures in a row allows.
Errs == IF failures < MaxFailures THEN BOOLEAN ELSE {FALSE}

\* The steps at which the deriver is inside an attempt of the operation.
AttemptPcs ==
  {"operation", "next", "locationCallbacks", "processSlot", "blockIdentifier",
   "extract", "createEvent", "sendEvents", "updateLocation"}

\* The operation returns err ("nil": success) to RetryNotify.
Return(err) ==
  /\ lastErr' = err
  /\ pc' = IF err = "nil" THEN "select" ELSE "failed"
  /\ returnedAfterCancel' = (returnedAfterCancel \/ cancelled)
  /\ failures' = IF err = "nil" THEN 0
                 ELSE IF failures < MaxFailures THEN failures + 1 ELSE failures
  /\ recovered' = IF err = "nil" THEN failures
                  ELSE IF failures = 0 THEN recovered ELSE 0

\* Enter a stage of the operation with its loop counters at the start.
Enter(stage) ==
  /\ pc' = stage
  /\ idx' = 1
  /\ evIdx' = 1

\* The operation's locals before an attempt.
FreshAttempt ==
  /\ location' = 0
  /\ block' = NilBlock
  /\ blockIdentifier' = NoIdentifier
  /\ changes' = <<>>
  /\ events' = <<>>
  /\ evIdx' = 1
  /\ idx' = 1
  /\ trace' = <<>>
  /\ cbErr' = {}

\* The error of processSlot logged and not returned: the operation goes on
\* with no events.
ProcessSlotErrorIgnored(err) ==
  /\ events' = <<>>
  /\ pc' = "sendEvents"
  /\ idx' = 1
  /\ evIdx' = 1
  /\ UNCHANGED <<lastErr, returnedAfterCancel, failures, recovered>>

\* The events assembled before the error sent to the callbacks.
ProcessSlotErrorSendsAssembled(err) ==
  /\ pc' = "sendEvents"
  /\ idx' = 1
  /\ evIdx' = 1
  /\ UNCHANGED <<events, lastErr, returnedAfterCancel, failures, recovered>>

\* run after processSlot returned (nil, err): log and return the error.
ProcessSlotError(err) ==
  /\ events' = <<>>
  /\ Return(err)
  /\ UNCHANGED <<idx, evIdx>>

\* A missing block treated as an error.
nilBlockFailsAlways == TRUE

\* Whether processSlot treats a missing block (nil, nil) as an error.
nilBlockFails == FALSE

\* for { select { case <-ctx.Done(): return; default: RetryNotify(...) } }:
\* RetryNotify resets the controller and runs the operation.
Select ==
  /\ pc = "select"
  /\ IF cancelled
     THEN /\ pc' = "stopped"
          /\ UNCHANGED <<currentInterval, lastDelay, lastErr, run, trace, failures,
                         cbErr, offered>>
     ELSE /\ pc' = "operation"
          /\ currentInterval' = Reset
          /\ failures' = 0
          /\ lastDelay' = 0
          /\ lastErr' = "none"
          /\ offered' = IF lastErr = "nil" THEN NoOffers ELSE offered
          /\ FreshAttempt
  /\ UNCHANGED <<cfgEnabled, onEventCallbacks, onLocationCallbacks, cancelled,
                 checkpoint, chain, fetched, returnedAfterCancel, recovered>>
  /\ UNCHANGED <<startReturned, aux>>

\* The attempt sleeps, then b.beacon.Synced(ctx).
Synced ==
  /\ pc = "operation"
  /\ \E err \in Errs :
       /\ trace' = Append(trace, Call("Synced", 0, 0, 0, err))
       /\ IF err
          THEN Return("synced")
          ELSE pc' = "next" /\ UNCHANGED <<lastErr, returnedAfterCancel, failures, recovered>>
  /\ UNCHANGED <<cfgEnabled, onEventCallbacks, onLocationCallbacks, cancelled,
                 checkpoint, chain, fetched, run, currentInterval, lastDelay, cbErr,
                 offered>>
  /\ UNCHANGED <<startReturned, aux>>

\* SlotIterator.Next: the next unprocessed slot; it does not advance the
\* checkpoint, so it returns the same slot until that slot is committed.
IteratorNext == checkpoint + 1

\* b.iterator.Next(ctx): the Location after the checkpoint, or an error.
Next ==
  /\ pc = "next"
  /\ \E err \in Errs :
       /\ ~err => checkpoint < MaxSlot
       /\ trace' = Append(trace, Call("Next", 0, IF err THEN 0 ELSE IteratorNext, 0, err))
       /\ IF err
          THEN Return("next") /\ UNCHANGED <<location, idx, evIdx>>
          ELSE /\ location' = IteratorNext
               /\ Enter(operationOrder("next"))
               /\ UNCHANGED <<lastErr, returnedAfterCancel, failures, recovered>>
  /\ UNCHANGED <<cfgEnabled, onEventCallbacks, onLocationCallbacks, cancelled,
                 checkpoint, chain, fetched, block, blockIdentifier, changes, events,
                 currentInterval, lastDelay, cbErr, offered>>
  /\ UNCHANGED <<startReturned, aux>>

\* for _, fn := range b.onLocationCallbacks: one call; an error is logged.
LocationCallback ==
  /\ pc = "locationCallbacks"
  /\ idx <= Len(onLocationCallbacks)
  /\ \E err \in BOOLEAN :
       /\ trace' = Append(trace, Call("location", onLocationCallbacks[idx], location, 0, FALSE))
       /\ cbErr' = IF err THEN cbErr \cup {"location"} ELSE cbErr
       /\ IF locationCallbackAborts(err)
          THEN Return("callback") /\ UNCHANGED idx
          ELSE idx' = idx + 1 /\ UNCHANGED <<pc, lastErr, returnedAfterCancel, failures, recovered>>
  /\ UNCHANGED <<cfgEnabled, onEventCallbacks, onLocationCallbacks, cancelled,
                 checkpoint, chain, fetched, location, block, blockIdentifier, changes,
                 events, evIdx, currentInterval, lastDelay, offered>>
  /\ UNCHANGED <<startReturned, aux>>

\* The range over the location callbacks is exhausted.
LocationCallbacksDone ==
  /\ pc = "locationCallbacks"
  /\ idx > Len(onLocationCallbacks)
  /\ Enter(operationOrder("locationCallbacks"))
  /\ UNCHANGED <<cfgEnabled, onEventCallbacks, onLocationCallbacks, cancelled,
                 checkpoint, chain, fetched, location, block, blockIdentifier, changes,
                 events, currentInterval, lastDelay, lastErr, trace, cbErr,
                 returnedAfterCancel, failures, recovered,
                 offered>>
  /\ UNCHANGED <<startReturned, aux>>

\* processSlot: b.beacon.GetBeaconBlock; no block at the slot is no event.
GetBeaconBlock ==
  /\ pc = "processSlot"
  /\ \E err \in Errs :
       /\ trace' = Append(trace, Call("GetBeaconBlock", 0, location, 0, err))
       /\ IF err
          THEN /\ ProcessSlotError("getBeaconBlock")
               /\ UNCHANGED <<chain, fetched, block>>
          ELSE \E b \in (IF location \in fetched THEN {chain[location]} ELSE Blocks \cup {NilBlock}) :
                 /\ chain' = [chain EXCEPT ![location] = b]
                 /\ fetched' = fetched \cup {location}
                 /\ block' = b
                 /\ IF b.found
                    THEN /\ pc' = "blockIdentifier"
                         /\ UNCHANGED <<events, idx, evIdx, lastErr, returnedAfterCancel, failures, recovered>>
                    ELSE IF nilBlockFails
                         THEN ProcessSlotError("notFound")
                         ELSE /\ events' = <<>>
                              /\ Enter(operationOrder("processSlot"))
                              /\ UNCHANGED <<lastErr, returnedAfterCancel, failures, recovered>>
  /\ UNCHANGED <<cfgEnabled, onEventCallbacks, onLocationCallbacks, cancelled,
                 checkpoint, location, blockIdentifier, changes, currentInterval,
                 lastDelay, cbErr, offered>>
  /\ UNCHANGED <<startReturned, aux>>

\* processSlot: GetBlockIdentifier(block, wallclock).
BlockIdentifier ==
  /\ pc = "blockIdentifier"
  /\ \E err \in Errs :
       /\ trace' = Append(trace, Call("GetBlockIdentifier", 0, location, 0, err))
       /\ IF err
          THEN ProcessSlotError("blockIdentifier") /\ UNCHANGED blockIdentifier
          ELSE /\ blockIdentifier' = GetBlockIdentifier(block, location)
               /\ pc' = "extract"
               /\ UNCHANGED <<events, idx, evIdx, lastErr, returnedAfterCancel, failures, recovered>>
  /\ UNCHANGED <<cfgEnabled, onEventCallbacks, onLocationCallbacks, cancelled,
                 checkpoint, chain, fetched, location, block, changes,
                 currentInterval, lastDelay, cbErr, offered>>
  /\ UNCHANGED <<startReturned, aux>>

\* processSlot: b.getBLSToExecutionChanges(ctx, block).
Extract ==
  /\ pc = "extract"
  /\ LET r == getBLSToExecutionChanges(block)
     IN /\ trace' = Append(trace, Call("getBLSToExecutionChanges", 0, location, 0, r.err))
        /\ IF r.err
           THEN ProcessSlotError("unsupportedVersion") /\ UNCHANGED changes
           ELSE /\ changes' = r.changes
                /\ pc' = "createEvent"
                /\ UNCHANGED <<events, idx, evIdx, lastErr, returnedAfterCancel, failures, recovered>>
  /\ UNCHANGED <<cfgEnabled, onEventCallbacks, onLocationCallbacks, cancelled,
                 checkpoint, chain, fetched, location, block, blockIdentifier,
                 currentInterval, lastDelay, cbErr, offered>>
  /\ UNCHANGED <<startReturned, aux>>

\* processSlot: createEvent for the next change; a failed clone of the
\* metadata returns nil events and the error.
CreateEvent ==
  /\ pc = "createEvent"
  /\ Len(events) < Len(changes)
  /\ \E ok \in {~e : e \in Errs} :
       /\ trace' = Append(trace, Call("createEvent", 0, location, Len(events) + 1, ~ok))
       /\ IF ok
          THEN /\ events' = Append(events, createEvent(changes[Len(events) + 1], blockIdentifier,
                                                        uuidNew(Len(events))))
               /\ UNCHANGED <<pc, idx, evIdx, lastErr, returnedAfterCancel, failures, recovered>>
          ELSE ProcessSlotError("createEvent")
  /\ UNCHANGED <<cfgEnabled, onEventCallbacks, onLocationCallbacks, cancelled,
                 checkpoint, chain, fetched, location, block, blockIdentifier, changes,
                 currentInterval, lastDelay, cbErr, offered>>
  /\ UNCHANGED <<startReturned, aux>>

\* processSlot returns the events.
ProcessSlotReturn ==
  /\ pc = "createEvent"
  /\ Len(events) = Len(changes)
  /\ Enter(operationOrder("processSlot"))
  /\ UNCHANGED <<cfgEnabled, onEventCallbacks, onLocationCallbacks, cancelled,
                 checkpoint, chain, fetched, location, block, blockIdentifier, changes,
                 events, currentInterval, lastDelay, lastErr, trace, cbErr,
                 returnedAfterCancel, failures, recovered,
                 offered>>
  /\ UNCHANGED <<startReturned, aux>>

\* The send loops have run through.
sendDone == evIdx > Len(events) \/ idx > Len(onEventCallbacks)

\* The deliveries of a Location after one more: d is (position of the record,
\* position of the callback, the record).
Offer(o, d) ==
  [once |-> o.once \cup {d},
   twice |-> IF d \in o.once THEN o.twice \cup {d} ELSE o.twice,
   failedCommit |-> o.failedCommit]

\* for _, event := range events { for _, fn := range b.onEventCallbacks }:
\* one call; an error is logged.
SendEvent ==
  /\ pc = "sendEvents"
  /\ ~sendDone
  /\ \E err \in BOOLEAN :
       /\ trace' = Append(trace, Call("event", onEventCallbacks[idx], location, evIdx, FALSE))
       /\ cbErr' = IF err THEN cbErr \cup {"event"} ELSE cbErr
       /\ offered' = Offer(offered, <<evIdx, idx, events[evIdx].Data>>)
       /\ IF eventCallbackAborts(err)
          THEN Return("callback") /\ UNCHANGED <<idx, evIdx>>
          ELSE /\ evIdx' = nextSend(evIdx, idx)[1]
               /\ idx' = nextSend(evIdx, idx)[2]
               /\ UNCHANGED <<pc, lastErr, returnedAfterCancel, failures, recovered>>
  /\ UNCHANGED <<cfgEnabled, onEventCallbacks, onLocationCallbacks, cancelled,
                 checkpoint, chain, fetched, location, block, blockIdentifier, changes,
                 events, currentInterval, lastDelay>>
  /\ UNCHANGED <<startReturned, aux>>

\* Every event has been sent to every callback.
SendEventsDone ==
  /\ pc = "sendEvents"
  /\ sendDone
  /\ Enter(operationOrder("sendEvents"))
  /\ UNCHANGED <<cfgEnabled, onEventCallbacks, onLocationCallbacks, cancelled,
                 checkpoint, chain, fetched, location, block, blockIdentifier, changes,
                 events, currentInterval, lastDelay, lastErr, trace, cbErr,
                 returnedAfterCancel, failures, recovered,
                 offered>>
  /\ UNCHANGED <<startReturned, aux>>

\* b.iterator.UpdateLocation(ctx, location); on success bo.Reset() and the
\* operation returns nil. A committed slot is not fetched again.
UpdateLocation ==
  /\ pc = "updateLocation"
  /\ \E err \in Errs :
       /\ trace' = Append(trace, Call("UpdateLocation", 0, location, 0, err))
       /\ IF err
          THEN /\ Return("updateLocation")
               /\ offered' = [offered EXCEPT !.failedCommit = location]
               /\ UNCHANGED <<checkpoint, currentInterval, chain, fetched>>
          ELSE /\ checkpoint' = location
               /\ chain' = [s \in Slots |-> IF s <= location THEN NilBlock ELSE chain[s]]
               /\ fetched' = {s \in fetched : s > location}
               /\ currentInterval' = Reset
               /\ Return("nil")
               /\ UNCHANGED offered
  /\ UNCHANGED <<cfgEnabled, onEventCallbacks, onLocationCallbacks, cancelled, run,
                 lastDelay, cbErr>>
  /\ UNCHANGED <<startReturned, aux>>

\* RetryNotify after a failed attempt: NextBackOff is Stop once the elapsed
\* time passes MaxElapsedTime, and RetryNotify returns the error to the loop;
\* otherwise it notifies, sleeps the delay and runs the operation again.
RetryNotify ==
  /\ pc = "failed"
  /\ currentInterval' = incrementCurrentInterval(currentInterval)
  /\ \E stop \in BOOLEAN :
       IF stop \/ (retryObservesCtx /\ cancelled)
       THEN /\ pc' = retryGivenUp
            /\ recovered' = 0
            /\ UNCHANGED <<lastDelay, lastErr, run, trace, cbErr>>
       ELSE /\ lastDelay' = currentInterval
            /\ pc' = "operation"
            /\ lastErr' = "none"
            /\ FreshAttempt
            /\ UNCHANGED recovered
  /\ UNCHANGED <<cfgEnabled, onEventCallbacks, onLocationCallbacks, cancelled,
                 checkpoint, chain, fetched, returnedAfterCancel, failures, offered>>
  /\ UNCHANGED <<startReturned, aux>>

Step ==
  \/ OnEventDerived
  \/ OnLocationUpdated
  \/ Start
  \/ Cancel
  \/ Select
  \/ Synced
  \/ Next
  \/ LocationCallback
  \/ LocationCallbacksDone
  \/ GetBeaconBlock
  \/ BlockIdentifier
  \/ Extract
  \/ CreateEvent
  \/ ProcessSlotReturn
  \/ SendEvent
  \/ SendEventsDone
  \/ UpdateLocation
  \/ RetryNotify

Spec == Init /\ [][Step]_vars

\* The steps of the run goroutine.
RunLoop ==
  \/ Select
  \/ Synced
  \/ Next
  \/ LocationCallback
  \/ LocationCallbacksDone
  \/ GetBeaconBlock
  \/ BlockIdentifier
  \/ Extract
  \/ CreateEvent
  \/ ProcessSlotReturn
  \/ SendEvent
  \/ SendEventsDone
  \/ UpdateLocation
  \/ RetryNotify

\* The deriver with location callbacks and no event callback registered.
RetryStep ==
  \/ OnLocationUpdated
  \/ Start
  \/ Cancel
  \/ Select
  \/ Synced
  \/ Next
  \/ LocationCallback
  \/ LocationCallbacksDone
  \/ GetBeaconBlock
  \/ BlockIdentifier
  \/ Extract
  \/ CreateEvent
  \/ ProcessSlotReturn
  \/ SendEventsDone
  \/ UpdateLocation
  \/ RetryNotify

\* The run goroutine is scheduled and every call it makes returns: a step of
\* the run loop that stays possible is taken. Nothing obliges the callers of
\* the deriver to register, start, stop or cancel.
FairSpec == Init /\ [][RetryStep]_vars /\ WF_vars(RunLoop)

(* ------------------- Stop, and a second call of Start ---------------- *)

\* What the first run goroutine and the registrations own.
first ==
  <<cfgEnabled, onEventCallbacks, onLocationCallbacks, pc, run, currentInterval,
    lastDelay, lastErr, trace, failures, cbErr, returnedAfterCancel, recovered,
    offered, startReturned, stopReturned, stopCalledAt, assembly, extractions>>

\* Start called again on a started deriver: nothing guards the go statement,
\* so an enabled deriver gets a second run goroutine on the same iterator.
SecondStart ==
  /\ pc # "idle"
  /\ pc2 = "none"
  /\ pc2' = IF startSpawns(cfgEnabled) THEN "select" ELSE "disabled"
  /\ UNCHANGED <<first, cancelled, checkpoint, chain, fetched, location2>>

\* The second goroutine's select on ctx.Done().
SecondSelect ==
  /\ pc2 = "select"
  /\ pc2' = IF cancelled THEN "stopped" ELSE "operation"
  /\ UNCHANGED <<first, cancelled, checkpoint, chain, fetched, location2>>

\* The second goroutine's attempt up to b.iterator.Next: on an error
\* RetryNotify runs the operation again or returns to the loop.
SecondNext ==
  /\ pc2 = "operation"
  /\ \E err \in BOOLEAN, stop \in BOOLEAN :
       IF err
       THEN /\ pc2' = IF stop THEN retryGivenUp ELSE "operation"
            /\ UNCHANGED location2
       ELSE /\ checkpoint < MaxSlot
            /\ ~stop
            /\ location2' = IteratorNext
            /\ pc2' = "processing"
  /\ UNCHANGED <<first, cancelled, checkpoint, chain, fetched>>

\* The rest of the second goroutine's attempt: the slot is processed and
\* b.iterator.UpdateLocation commits it, or the attempt fails.
SecondUpdateLocation ==
  /\ pc2 = "processing"
  /\ \E err \in BOOLEAN, stop \in BOOLEAN :
       IF err
       THEN /\ pc2' = IF stop THEN retryGivenUp ELSE "operation"
            /\ UNCHANGED <<checkpoint, chain, fetched>>
       ELSE /\ ~stop
            /\ checkpoint' = location2
            /\ chain' = [s \in Slots |-> IF s <= location2 THEN NilBlock ELSE chain[s]]
            /\ fetched' = {s \in fetched : s > location2}
            /\ pc2' = "select"
  /\ location2' = 0
  /\ UNCHANGED <<first, cancelled>>

\* The deriver with no callback registered, under any calls of Stop and the
\* cancellation of ctx.
LifecycleStep ==
  \/ Start
  \/ Stop
  \/ Cancel
  \/ Select
  \/ Synced
  \/ Next
  \/ LocationCallbacksDone
  \/ GetBeaconBlock
  \/ BlockIdentifier
  \/ Extract
  \/ CreateEvent
  \/ ProcessSlotReturn
  \/ SendEventsDone
  \/ UpdateLocation
  \/ RetryNotify

LifecycleSpec == Init /\ [][LifecycleStep]_vars

\* The deriver with no callback registered and Start called twice.
RestartStep ==
  \/ Start
  \/ SecondStart
  \/ Cancel
  \/ Select
  \/ Synced
  \/ Next
  \/ LocationCallbacksDone
  \/ GetBeaconBlock
  \/ BlockIdentifier
  \/ Extract
  \/ CreateEvent
  \/ ProcessSlotReturn
  \/ SendEventsDone
  \/ UpdateLocation
  \/ RetryNotify
  \/ SecondSelect
  \/ SecondNext
  \/ SecondUpdateLocation

RestartSpec == Init /\ [][RestartStep]_vars

(* ------------------ createEvent followed through memory -------------- *)

\* A clone that is the object itself.
protoCloneAliases(heap, addr) == [heap |-> heap, addr |-> addr]

\* proto.Clone: a new object with the fields of the one at addr.
protoClone(heap, addr) == [heap |-> Append(heap, heap[addr]), addr |-> Len(heap) + 1]

\* The block identifiers passed to createEvent.
Identifiers == {GetBlockIdentifier([Version |-> DataVersionCapella], s) : s \in Slots}

\* Everything but the memory of the metadata objects.
deriverState ==
  <<cfgEnabled, onEventCallbacks, onLocationCallbacks, cancelled, pc, checkpoint,
    chain, fetched, run, currentInterval, lastDelay, lastErr, trace, failures, cbErr,
    returnedAfterCancel, recovered, offered, startReturned, stopReturned,
    stopCalledAt, pc2, location2, extractions>>

\* createEvent, its first statement: a deriver clones the template.
CloneMetadata ==
  \E d \in Derivers, identifier \in Identifiers :
    /\ assembling[d].pc = "idle"
    /\ Len(assembled) + Cardinality({e \in Derivers : assembling[e].pc = "cloned"})
         < MaxAssembled
    /\ LET c == protoClone(metaHeap, TemplateAddr)
       IN /\ metaHeap' = c.heap
          /\ assembling' = [assembling EXCEPT ![d] =
                              [pc |-> "cloned", identifier |-> identifier, metadata |-> c.addr]]
    /\ UNCHANGED <<assembled, deriverState>>

\* createEvent, the rest: the event holds the clone in Meta.Client, the
\* block identifier is stored in the AdditionalData of Meta.Client, and the
\* event is returned.
SetAdditionalData ==
  \E d \in Derivers :
    /\ assembling[d].pc = "cloned"
    /\ metaHeap' = [metaHeap EXCEPT ![assembling[d].metadata].AdditionalData =
                                    assembling[d].identifier]
    /\ assembled' = Append(assembled, [by |-> d, identifier |-> assembling[d].identifier,
                                        Client |-> assembling[d].metadata])
    /\ assembling' = [assembling EXCEPT ![d] = NotAssembling]
    /\ UNCHANGED deriverState

\* The createEvent calls of two derivers on one template, in any interleaving.
CloneStep ==
  \/ CloneMetadata
  \/ SetAdditionalData

CloneSpec == Init /\ [][CloneStep]_vars

(* ------------------------ the extractor on its own -------------------- *)

\* Everything but the deriver state the extractor is run under.
extractorFrame ==
  <<cfgEnabled, onEventCallbacks, onLocationCallbacks, cancelled, pc, checkpoint,
    chain, fetched, block, blockIdentifier, changes, events, evIdx, idx,
    currentInterval, lastDelay, lastErr, trace, cbErr, returnedAfterCancel, recovered,
    offered, startReturned, stopReturned, stopCalledAt, pc2, location2, assembly>>

\* Any block of the chain in the hands of a deriver.
ExtractInit ==
  /\ Constructed
  /\ block \in Blocks

\* The deriver is at another Location, after another number of failed
\* attempts.
DeriverMoves ==
  /\ \E loc \in Slots, f \in 0 .. MaxFailures :
       /\ <<loc, f>> # <<location, failures>>
       /\ location' = loc
       /\ failures' = f
  /\ UNCHANGED <<extractorFrame, extractions>>

\* b.getBLSToExecutionChanges(ctx, block) is run once more.
ExtractorRun ==
  /\ Len(extractions) < MaxExtractions
  /\ extractions' = Append(extractions,
                           [location |-> location, failures |-> failures,
                            result |-> getBLSToExecutionChanges(block)])
  /\ UNCHANGED <<extractorFrame, location, failures>>

ExtractStep ==
  \/ DeriverMoves
  \/ ExtractorRun

ExtractSpec == ExtractInit /\ [][ExtractStep]_vars

(* --------------------------- reading the trace ------------------------ *)

\* The calls of the current attempt with one name, in order.
CallsOf(name) == SelectSeq(trace, LAMBDA c : c.call = name)

\* Where in the current attempt the calls with one name are.
PositionsOf(name) == {n \in 1 .. Len(trace) : trace[n].call = name}

\* The attempt is over: the operation has returned.
Returned == pc \in {"failed", "select", "stopped"} /\ lastErr # "none"

\* The attempt has returned nil.
Succeeded == pc \in {"select", "stopped"} /\ lastErr = "nil"

\* The events the block fetched in this attempt derives, in extraction order.
ExpectedEvents ==
  LET r == getBLSToExecutionChanges(block)
  IN IF block.found /\ ~r.err
     THEN [k \in 1 .. Len(r.changes) |->
             createEvent(r.changes[k], GetBlockIdentifier(block, location), uuidNew(k - 1))]
     ELSE <<>>

\* Every location callback once, in registration order, with the slot.
ExpectedLocationCalls ==
  [i \in 1 .. Len(onLocationCallbacks) |->
     Call("location", onLocationCallbacks[i], location, 0, FALSE)]

\* Every assembled event to every event callback once: the events in their
\* order, and for each event the callbacks in registration order.
ExpectedEventCalls ==
  LET n == Len(onEventCallbacks)
  IN [m \in 1 .. (Len(events) * n) |->
        Call("event", onEventCallbacks[((m - 1) % n) + 1], location, ((m - 1) \div n) + 1, FALSE)]

(* ------------------------------- claims ------------------------------- *)

\* C1 (checkpoint after success): in an attempt, UpdateLocation is the last
\* call and so is called at most once; it is called with the Location that
\* Next returned in the attempt, after every location callback and every
\* delivery of an event to an event callback; an attempt that returned nil
\* has called it exactly once and the checkpoint is that Location.
C1_CheckpointAfterSuccess ==
  /\ \A n \in PositionsOf("UpdateLocation") :
       /\ n = Len(trace)
       /\ \E m \in PositionsOf("Next") :
            m < n /\ ~trace[m].err /\ trace[m].slot = trace[n].slot
       /\ CallsOf("location") = ExpectedLocationCalls
       /\ events = ExpectedEvents
       /\ CallsOf("event") = ExpectedEventCalls
  /\ Succeeded =>
       /\ Cardinality(PositionsOf("UpdateLocation")) = 1
       /\ ~trace[Len(trace)].err
       /\ checkpoint = trace[Len(trace)].slot

\* A successful attempt with two location callbacks and two events sent to
\* two event callbacks.
C1_Witness ==
  /\ Succeeded
  /\ Len(CallsOf("location")) = 2
  /\ Len(CallsOf("event")) = 4

\* The calls whose error the operation returns before the commit.
FailCalls ==
  {"Synced", "Next", "GetBeaconBlock", "GetBlockIdentifier",
   "getBLSToExecutionChanges", "createEvent"}

\* C2 (no commit on failure): when the sync check, Next, the block fetch, the
\* block identifier, the extraction or the assembly of an event returns an
\* error, it is the last call of the attempt, the attempt fails, UpdateLocation
\* is not called in it and the Location stays uncommitted.
C2_NoCommitOnFailure ==
  \A n \in 1 .. Len(trace) :
    (trace[n].call \in FailCalls /\ trace[n].err) =>
      /\ n = Len(trace)
      /\ Returned /\ lastErr # "nil"
      /\ PositionsOf("UpdateLocation") = {}
      /\ location # 0 => checkpoint = location - 1

\* The assembly of the second event of a block failed.
C2_Witness ==
  /\ pc = "failed"
  /\ lastErr = "createEvent"
  /\ trace[Len(trace)].call = "createEvent"
  /\ trace[Len(trace)].err
  /\ trace[Len(trace)].k = 2

\* The block fetch of the attempt returned no error and no block.
FetchedNoBlock ==
  /\ \E n \in PositionsOf("GetBeaconBlock") : ~trace[n].err
  /\ ~block.found

\* C3 (not found is zero-event success): after a fetch that returned no block
\* and no error the attempt calls no event callback and nothing else that
\* can fail before UpdateLocation: it returns only after calling
\* UpdateLocation with the Location, it fails only if that call fails, and
\* otherwise it returns nil with the Location committed.
C3_NotFoundIsZeroEventSuccess ==
  FetchedNoBlock =>
    /\ CallsOf("event") = <<>>
    /\ pc \in {"sendEvents", "updateLocation", "failed", "select", "stopped"}
    /\ Returned =>
         /\ trace[Len(trace)].call = "UpdateLocation"
         /\ trace[Len(trace)].slot = location
         /\ lastErr = (IF trace[Len(trace)].err THEN "updateLocation" ELSE "nil")
         /\ ~trace[Len(trace)].err => checkpoint = location

\* A Location without a block committed, with two event callbacks registered.
C3_Witness ==
  /\ FetchedNoBlock
  /\ Succeeded
  /\ checkpoint = location
  /\ Len(onEventCallbacks) = 2


\* The block is of a fork version newer than Capella.
Unsupported(b) == b.found /\ b.Version > DataVersionCapella

\* C4 (unsupported version blocks progress): while the block at the
\* uncommitted slot is of a version newer than Capella, every attempt is on
\* that slot and fails, UpdateLocation is not called for it, no event is sent,
\* the checkpoint stays right before it, and the run loop ends only by
\* cancellation.
C4_UnsupportedVersionBlocksProgress ==
  /\ \A s \in fetched :
       Unsupported(chain[s]) =>
         /\ checkpoint = s - 1
         /\ location \in {0, s}
         /\ Returned => lastErr # "nil"
         /\ pc = "stopped" => cancelled
  /\ Unsupported(block) =>
       /\ checkpoint < location
       /\ PositionsOf("UpdateLocation") = {}
       /\ CallsOf("event") = <<>>
       /\ Returned => lastErr \in {"blockIdentifier", "unsupportedVersion"}

\* The Location of a block newer than Capella has failed so often in a row
\* that the backoff interval is at its maximum, and ctx is not cancelled.
C4_Witness ==
  /\ \E s \in fetched : Unsupported(chain[s])
  /\ pc = "failed"
  /\ lastErr = "unsupportedVersion"
  /\ currentInterval = MaxInterval
  /\ ~cancelled

\* C5 (respect cancellation): once ctx is cancelled no attempt begins, neither
\* a first attempt nor a retry after a failed attempt.
C5_NoAttemptAfterCancel ==
  [][cancelled => ~(pc # "operation" /\ pc' = "operation")]_vars

\* C6 (cancellation terminates the run loop): once an attempt has returned
\* after ctx was cancelled, the run loop is on its way out and never inside
\* an attempt again.
C6_StopsAfterInFlightAttempt ==
  returnedAfterCancel => pc \in {"failed", "select", "stopped"}

\* Every delivery the block of this attempt asks for: (position of the
\* record, position of the event callback, the record).
AllDeliveries ==
  LET ev == ExpectedEvents
  IN {<<k, i, ev[k].Data>> : k \in 1 .. Len(ev), i \in 1 .. Len(onEventCallbacks)}

\* C7 (at-least-once re-delivery): when UpdateLocation is called every record
\* of the Location has been offered to every event callback; when it fails
\* the attempt fails with the Location uncommitted, the following attempts
\* are on the same Location, and by the next call of UpdateLocation every
\* record has been offered to every event callback again.
C7_AtLeastOnceRedelivery ==
  /\ \A n \in PositionsOf("UpdateLocation") :
       /\ AllDeliveries \subseteq offered.once
       /\ trace[n].err =>
            /\ Returned /\ lastErr = "updateLocation"
            /\ offered.failedCommit = location
            /\ checkpoint = location - 1
  /\ offered.failedCommit # 0 =>
       /\ location \in {0, offered.failedCommit}
       /\ checkpoint \in {offered.failedCommit - 1, offered.failedCommit}
       /\ (pc = "updateLocation" \/ Succeeded) => AllDeliveries \subseteq offered.twice

\* A Location committed after a failed commit: two records offered twice to
\* two event callbacks.
C7_Witness ==
  /\ offered.failedCommit # 0
  /\ Succeeded
  /\ Cardinality(AllDeliveries) = 4
  /\ AllDeliveries \subseteq offered.twice

\* s is the beginning of t.
IsPrefix(s, t) == Len(s) <= Len(t) /\ \A n \in 1 .. Len(s) : s[n] = t[n]

\* processSlot has returned the events in this attempt.
Processed ==
  /\ PositionsOf("GetBeaconBlock") # {}
  /\ \A n \in 1 .. Len(trace) : trace[n].call \in FailCalls => ~trace[n].err
  /\ pc \notin {"processSlot", "blockIdentifier", "extract", "createEvent"}

\* C8 (event fan-out): the event callbacks are called event by event in
\* extraction order, and for each event in registration order; an attempt
\* whose processSlot succeeded returns only after every event went to every
\* event callback once and UpdateLocation was called, whatever the callbacks
\* returned.
C8_EventFanOut ==
  LET sent == CallsOf("event")
  IN /\ IsPrefix(sent, ExpectedEventCalls)
     /\ sent # <<>> => events = ExpectedEvents
     /\ (Returned /\ Processed) =>
          /\ sent = ExpectedEventCalls
          /\ trace[Len(trace)].call = "UpdateLocation"
          /\ lastErr \in {"nil", "updateLocation"}
     /\ "event" \in cbErr => Processed

\* An event callback returned an error and the attempt still sent two events
\* to two callbacks and committed.
C8_Witness ==
  /\ "event" \in cbErr
  /\ Succeeded
  /\ Len(CallsOf("event")) = 4
  /\ checkpoint = location

\* C9 (location notice): the location callbacks are called in registration
\* order with the slot Next returned; all of them have been called once
\* before the block is fetched; an attempt that got a Location returns only
\* after calling them all and fetching the block, whatever they returned.
C9_LocationNotice ==
  LET told == CallsOf("location")
      fetches == PositionsOf("GetBeaconBlock")
  IN /\ IsPrefix(told, ExpectedLocationCalls)
     /\ \A m \in PositionsOf("location") :
          \E n \in PositionsOf("Next") :
            n < m /\ ~trace[n].err /\ trace[n].slot = trace[m].slot
     /\ \A n \in fetches :
          /\ told = ExpectedLocationCalls
          /\ \A m \in PositionsOf("location") : m < n
     /\ (location # 0 /\ Returned) =>
          /\ told = ExpectedLocationCalls
          /\ fetches # {}

\* A location callback returned an error and the attempt still called both
\* location callbacks and committed.
C9_Witness ==
  /\ "location" \in cbErr
  /\ Succeeded
  /\ Len(CallsOf("location")) = 2
  /\ checkpoint = location

\* C10 as claimed: in an attempt the events go to the event callbacks first,
\* then the location callbacks are called, then UpdateLocation.
C10_EventsThenLocationNotice ==
  /\ \A m \in PositionsOf("location") : \A n \in PositionsOf("event") : n < m
  /\ \A u \in PositionsOf("UpdateLocation") :
       \A m \in PositionsOf("location") \cup PositionsOf("event") : m < u

\* C10 as amended: in an attempt the location callbacks are called first,
\* then the events go to the event callbacks, then UpdateLocation.
C10_LocationNoticeThenEvents ==
  /\ \A m \in PositionsOf("location") : \A n \in PositionsOf("event") : m < n
  /\ \A u \in PositionsOf("UpdateLocation") :
       \A m \in PositionsOf("location") \cup PositionsOf("event") : m < u

\* An attempt about to commit after calls of both kinds of callback.
C10_Witness ==
  /\ pc = "updateLocation"
  /\ PositionsOf("location") # {}
  /\ PositionsOf("event") # {}

\* C11 (backoff reset): after one or more failed attempts in a row and then a
\* successful attempt, the delay applied after the next failed attempt is the
\* controller's initial interval, and the interval continues from there.
C11_BackoffReset ==
  (recovered > 0 /\ failures = 1 /\ lastDelay # 0) =>
    /\ lastDelay = InitialInterval
    /\ currentInterval \in {InitialInterval, incrementCurrentInterval(InitialInterval)}

\* Two failed attempts, a successful one, a failed one, and its delay applied.
C11_Witness ==
  /\ recovered = 2
  /\ failures = 1
  /\ lastDelay = InitialInterval
  /\ pc = "operation"

\* C12 (the controller never gives up permanently): while ctx is not
\* cancelled every failed attempt is followed by another attempt; and if from
\* some point on no attempt fails, a Location whose attempt has failed is
\* committed, unless ctx is cancelled.
C12_NeverGivesUp ==
  /\ [](pc = "failed" /\ ~cancelled => <>(pc = "operation" \/ cancelled))
  /\ \A s \in Slots :
       <>[](pc # "failed") =>
         []((pc = "failed" /\ checkpoint = s - 1) => <>(checkpoint >= s \/ cancelled))

\* A Location committed, ctx not cancelled, after RetryNotify has given up
\* and has been called again.
C12_Witness ==
  /\ Succeeded
  /\ ~cancelled
  /\ checkpoint = MaxSlot
  /\ offered.failedCommit # 0
  /\ failures = 0
  /\ lastDelay = 0

\* C13 (disabled is terminal): Start returns nil; with enabled = false the run
\* loop never starts, so no collaborator and no callback is ever called and
\* nothing is committed; with enabled = true the run goroutine exists once
\* Start has returned.
C13_DisabledIsTerminal ==
  /\ startReturned \in {"none", "nil"}
  /\ startReturned = "nil" <=> pc # "idle"
  /\ ~cfgEnabled =>
       /\ pc \in {"idle", "disabled"}
       /\ trace = <<>>
       /\ cbErr = {}
       /\ offered = NoOffers
       /\ lastErr = "none"
       /\ location = 0
       /\ fetched = {}
       /\ checkpoint = 0
  /\ (cfgEnabled /\ startReturned = "nil") => pc \notin {"idle", "disabled"}

\* A disabled deriver with two callbacks of each kind registered, started,
\* and its context cancelled.
C13_Witness ==
  /\ pc = "disabled"
  /\ startReturned = "nil"
  /\ Len(onEventCallbacks) = 2
  /\ Len(onLocationCallbacks) = 2
  /\ cancelled

\* The steps of an attempt between its Next and its commit.
BetweenNextAndCommit ==
  {"locationCallbacks", "processSlot", "blockIdentifier", "extract", "createEvent",
   "sendEvents", "updateLocation"}

\* C14 (exactly one background task per deriver): however often Start is
\* called, at most one run loop is active, so that no attempt is between its
\* Next and its commit while another attempt of the deriver is.
C14_OneRunLoop ==
  ~(pc \in BetweenNextAndCommit /\ pc2 = "processing")

\* C15 (version dispatch of the extractor): in an attempt that ran the
\* extractor on its block, a Phase0, Altair or Bellatrix block gave no record
\* and no error; a Capella block gave one record per change of its body, in
\* body order, and no error; any other version gave an error and no record.
C15_VersionDispatch ==
  \A n \in PositionsOf("getBLSToExecutionChanges") :
    /\ block.Version \in {DataVersionPhase0, DataVersionAltair, DataVersionBellatrix} =>
         ~trace[n].err /\ changes = <<>>
    /\ block.Version = DataVersionCapella =>
         /\ ~trace[n].err
         /\ Len(changes) = Len(block.Body)
         /\ \A k \in 1 .. Len(changes) :
              changes[k].Message.ValidatorIndex = block.Body[k].ValidatorIndex
    /\ block.Version \notin {DataVersionPhase0, DataVersionAltair, DataVersionBellatrix,
                             DataVersionCapella} =>
         /\ trace[n].err
         /\ changes = <<>>
         /\ lastErr = "unsupportedVersion"

\* The extractor has run on a Capella block whose body has the change of
\* validator 9 before the change of validator 3.
C15_Witness ==
  /\ PositionsOf("getBLSToExecutionChanges") # {}
  /\ block.Version = DataVersionCapella
  /\ Len(changes) = 2
  /\ changes[1].Message.ValidatorIndex = 9
  /\ changes[2].Message.ValidatorIndex = 3

\* C16 (assembly of a Capella block): when processSlot has succeeded on a
\* Capella block with k changes there are k events, the i-th carries the i-th
\* change, all carry the identifier of the block, and their generated
\* identifiers differ pairwise; and UpdateLocation is called only after each
\* of the k events went to every registered event callback.
C16_CapellaAssembly ==
  (Processed /\ block.found /\ block.Version = DataVersionCapella) =>
    /\ Len(events) = Len(block.Body)
    /\ \A i \in 1 .. Len(events) :
         /\ events[i].Data.Message.ValidatorIndex = block.Body[i].ValidatorIndex
         /\ events[i].Meta.Client.AdditionalData =
              [Slot |-> location, Version |-> DataVersionCapella]
         /\ \A j \in 1 .. Len(events) : i # j => events[i].Id # events[j].Id
    /\ \A u \in PositionsOf("UpdateLocation") :
         \A k \in 1 .. Len(block.Body), i \in 1 .. Len(onEventCallbacks) :
           \E m \in 1 .. (u - 1) :
             /\ trace[m].call = "event"
             /\ trace[m].k = k
             /\ trace[m].fn = onEventCallbacks[i]

\* The Capella block with the changes of validators 3 and 9 committed after
\* its two events went to two event callbacks.
C16_Witness ==
  /\ Succeeded
  /\ block.found /\ block.Version = DataVersionCapella
  /\ block.Body = <<RawChange(3), RawChange(9)>>
  /\ Len(events) = 2
  /\ Len(onEventCallbacks) = 2
  /\ checkpoint = location

\* C17 (metadata isolation): the template is never modified; every event
\* holds a metadata object of its own, which is not the template and not the
\* object of any other event or of a createEvent call under way, so that it
\* keeps the additional data its own call stored, whatever the calls of the
\* same or of another deriver store afterwards.
C17_MetadataIsolation ==
  /\ metaHeap[TemplateAddr] = clientMeta
  /\ \A n \in 1 .. Len(assembled) :
       /\ assembled[n].Client # TemplateAddr
       /\ metaHeap[assembled[n].Client] =
            createEvent(<<>>, assembled[n].identifier, 0).Meta.Client
       /\ \A m \in 1 .. Len(assembled) : m # n => assembled[m].Client # assembled[n].Client
       /\ \A d \in Derivers : assembling[d].metadata # assembled[n].Client
  /\ \A d \in Derivers :
       assembling[d].pc = "cloned" =>
         /\ assembling[d].metadata # TemplateAddr
         /\ \A e \in Derivers \ {d} : assembling[e].metadata # assembling[d].metadata

\* Two derivers were inside createEvent at once with different identifiers:
\* the one that cloned later stored its additional data and returned first.
C17_Witness ==
  /\ Len(assembled) = MaxAssembled
  /\ \E m, n \in 1 .. Len(assembled) :
       /\ m < n
       /\ assembled[m].Client > assembled[n].Client
       /\ assembled[m].by # assembled[n].by
       /\ assembled[m].identifier # assembled[n].identifier

StopReturns == <<stopReturned, stopCalledAt>>' # <<stopReturned, stopCalledAt>>

\* C19 (Stop is a no-op): a call of Stop returns nil and changes nothing of
\* the deriver, started, disabled or never started; the run loop goes on
\* after it and ends only at a cancelled ctx.
C19_StopIsNoOp ==
  [][/\ StopReturns =>
          /\ stopReturned' = "nil"
          /\ UNCHANGED <<cfgEnabled, onEventCallbacks, onLocationCallbacks, cancelled,
                         pc, checkpoint, chain, fetched, run, currentInterval,
                         lastDelay, lastErr, trace, failures, cbErr,
                         returnedAfterCancel, recovered, offered, startReturned>>
     /\ (pc # "stopped" /\ pc' = "stopped") => cancelled
    ]_vars

\* Stop was called before the first Location was committed; ctx is not
\* cancelled and the run loop is in an attempt after committing every slot.
C19_Witness ==
  /\ stopReturned = "nil"
  /\ stopCalledAt = 0
  /\ checkpoint = MaxSlot
  /\ ~cancelled
  /\ pc \in AttemptPcs

\* C20 (all-or-nothing delivery per attempt): an event callback is called
\* only after processSlot has returned every event of the Location; when the
\* block fetch, the block identifier, the extraction or the assembly of an
\* event fails, no event callback is called in the attempt, and every
\* location callback has been called.
C20_AllOrNothingDelivery ==
  /\ CallsOf("event") # <<>> =>
       /\ Processed
       /\ Len(events) = Len(changes)
       /\ events = ExpectedEvents
  /\ \A n \in 1 .. Len(trace) :
       (/\ trace[n].err
        /\ trace[n].call \in {"GetBeaconBlock", "GetBlockIdentifier",
                               "getBLSToExecutionChanges", "createEvent"}) =>
         /\ CallsOf("event") = <<>>
         /\ events = <<>>
         /\ CallsOf("location") = ExpectedLocationCalls

\* The assembly of the second event of a block failed after the first was
\* assembled, with two callbacks of each kind registered.
C20_Witness ==
  /\ pc = "failed"
  /\ lastErr = "createEvent"
  /\ trace[Len(trace)].call = "createEvent"
  /\ trace[Len(trace)].k = 2
  /\ Len(onEventCallbacks) = 2
  /\ Len(CallsOf("location")) = 2

====
